---- MODULE Spec2Model ----
(***************************************************************************)
(* Model of src/main.rs: a query plan (Query) is a jagged matrix of        *)
(* Actions, one Step per row.  Query::optimize clones the plan, removes    *)
(* the columns Col::is_empty reports (pass 1) and then raises every Step   *)
(* holding a Filter towards the most recent Group Step (pass 2).           *)
(*                                                                         *)
(* Indices are 0-based as in the source; At(s, k) reads s[k] of the Rust   *)
(* vector.  One action of the model is one iteration of one of the two     *)
(* for-loops of optimize, or the code before/between/after them.           *)
(***************************************************************************)
EXTENDS Integers, Sequences, FiniteSets

VARIABLES input, pc, steps, colsv, ci, snap, i, filter_anchor, ids

vars == <<input, pc, steps, colsv, ci, snap, i, filter_anchor, ids>>

(***************************************************************************)
(* enum Action                                                             *)
(***************************************************************************)
Empty == [tag |-> "Empty"]
None == [tag |-> "None"]
Name(id) == [tag |-> "Name", id |-> id]
Select == [tag |-> "Select"]
Map == [tag |-> "Map"]
Filter == [tag |-> "Filter"]
Group(index) == [tag |-> "Group", index |-> index]
Join(id) == [tag |-> "Join", id |-> id]

Actions == {Empty, None, Name("a"), Select, Map, Filter, Group(0), Join("d")}

(***************************************************************************)
(* Bounds of the checked input space.                                      *)
(***************************************************************************)
\* longest plan built from HoistSteps
MaxSteps == 4
\* tallest single-column plan built from all Actions
MaxRows == 4
\* widest Step of the two-Step plans built from WideActions
MaxWidth == 3

At(s, k) == s[k + 1]

Range(s) == {s[k] : k \in 1..Len(s)}

SeqsUpTo(S, n) == UNION {[1..m -> S] : m \in 0..n}

(***************************************************************************)
(* impl Step                                                               *)
(***************************************************************************)
is_filter(step) == \E k \in 0..Len(step) - 1 : At(step, k) = Filter

\* Option<usize> is <<>> for None and <<k>> for Some(k); the scan runs from
\* the last cell to the first.
RECURSIVE widest_filter_scan(_, _)
widest_filter_scan(step, n) ==
    IF n = 0 THEN <<>>
    ELSE IF At(step, n - 1) = Filter THEN <<n - 1>>
    ELSE widest_filter_scan(step, n - 1)

widest_filter_index(step) == widest_filter_scan(step, Len(step))

is_group(step) == \E k \in 0..Len(step) - 1 : At(step, k).tag = "Group"

(***************************************************************************)
(* impl Col                                                                *)
(***************************************************************************)
\* One pass over the cells from index k on, carrying the three flags.
RECURSIVE is_empty_scan(_, _, _, _, _)
is_empty_scan(actions, k, isEmpty, isUsed, seenName) ==
    IF k >= Len(actions) THEN isEmpty
    ELSE LET a == At(actions, k) IN
         IF a.tag = "Empty"
         THEN is_empty_scan(actions, k + 1,
                            isEmpty \/ (seenName /\ ~isUsed), isUsed, seenName)
         ELSE IF a.tag = "Name"
         THEN is_empty_scan(actions, k + 1, isEmpty, isUsed, TRUE)
         ELSE IF a.tag = "Filter"
         THEN is_empty_scan(actions, k + 1, isEmpty, TRUE, seenName)
         ELSE IF a.tag = "Join"
         THEN is_empty_scan(actions, k + 1, isEmpty, TRUE, seenName)
         ELSE is_empty_scan(actions, k + 1, isEmpty, isUsed, seenName)

\* is_empty with every Filter and Join of the column counted, also those
\* behind the Empty.
is_empty_never_used(actions) ==
    /\ \E n, e \in 0..Len(actions) - 1 :
         n < e /\ At(actions, n).tag = "Name" /\ At(actions, e).tag = "Empty"
    /\ \A u \in 0..Len(actions) - 1 :
         At(actions, u).tag \notin {"Filter", "Join"}

is_empty(actions) == is_empty_scan(actions, 0, FALSE, FALSE, FALSE)

(***************************************************************************)
(* impl Query                                                              *)
(***************************************************************************)
\* width read off the first Step.
width_of_first(q) == IF Len(q) = 0 THEN 0 ELSE Len(q[1])

width(q) == IF Len(q) = 0 THEN 0 ELSE Len(q[Len(q)])

\* col padding with None.
col_padded_none(q, index) ==
    [k \in 1..Len(q) |-> IF index < Len(q[k]) THEN At(q[k], index) ELSE None]

col(q, index) ==
    [k \in 1..Len(q) |-> IF index < Len(q[k]) THEN At(q[k], index) ELSE Empty]

cols(q) == [c \in 1..width(q) |-> col(q, c - 1)]

\* Vec::remove(index): the cells after index move one place left.
VecRemove(v, index) ==
    [k \in 1..Len(v) - 1 |-> IF k - 1 < index THEN v[k] ELSE v[k + 1]]

remove_col(q, index) ==
    [k \in 1..Len(q) |->
        IF index < Len(q[k]) THEN VecRemove(q[k], index) ELSE q[k]]

\* slice::swap(a, b); out of range is a panic in the caller's result.
VecSwap(v, a, b) ==
    [k \in 1..Len(v) |-> IF k - 1 = a THEN At(v, b)
                         ELSE IF k - 1 = b THEN At(v, a) ELSE v[k]]

\* The loop of raise_step from row k down to row lo, both included:
\* (anchor + 2..index + 1).rev() is k = index, index - 1, ..., anchor + 2.
RECURSIVE raise_rows(_, _, _)
raise_rows(r, k, lo) ==
    IF k < lo \/ r.panicked THEN r
    ELSE IF k >= Len(r.steps) \/ k - 1 < 0
    THEN [steps |-> r.steps, panicked |-> TRUE]
    ELSE raise_rows([steps |-> VecSwap(r.steps, k, k - 1), panicked |-> FALSE],
                    k - 1, lo)

\* raise_step one row too far: the loop runs down to anchor + 1.
raise_step_to_anchor(q, index, anchor) ==
    raise_rows([steps |-> q, panicked |-> FALSE], index, anchor + 1)

\* raise_step as one exchange of rows index and anchor + 1.
raise_step_exchange(q, index, anchor) ==
    IF index >= anchor + 2
    THEN [steps |-> VecSwap(q, index, anchor + 1), panicked |-> FALSE]
    ELSE [steps |-> q, panicked |-> FALSE]

raise_step(q, index, anchor) ==
    raise_rows([steps |-> q, panicked |-> FALSE], index, anchor + 2)

(***************************************************************************)
(* The body of the second loop of optimize.                                *)
(***************************************************************************)
\* The anchor never moved to a Group Step.
group_anchor_kept(step, idx, anchor) == anchor

\* if step.is_group() { filter_anchor = i }
group_anchor(step, idx, anchor) == IF is_group(step) THEN idx ELSE anchor

\* The search from row idx - 1 down to the anchor.
anchor_search_down(idx, anchor) == [k \in 1..(idx - anchor) |-> idx - k]

\* The values j of `for j in i..filter_anchor`, in iteration order: a Rust
\* range lo..hi counts upwards and is empty when lo >= hi.
anchor_search_range(idx, anchor) == [k \in 1..(anchor - idx) |-> idx + k - 1]

\* The inner loop over the remaining values js.  overflow is what the build
\* does with `widest_filter_index - 1` at 0: "panic" (overflow checks on) or
\* "wrap" (off: the difference is usize::MAX, larger than any length).
RECURSIVE refine_anchor(_, _, _, _, _)
refine_anchor(q, idx, anchor, js, overflow) ==
    IF js = <<>> THEN [anchor |-> anchor, panicked |-> FALSE]
    ELSE LET j == Head(js)
             w == IF idx < Len(q) THEN widest_filter_index(At(q, idx)) ELSE <<>>
         IN  IF j >= Len(q) \/ idx >= Len(q) \/ w = <<>>
             THEN [anchor |-> anchor, panicked |-> TRUE]
             ELSE IF w[1] = 0
             THEN IF overflow = "panic"
                  THEN [anchor |-> anchor, panicked |-> TRUE]
                  ELSE [anchor |-> j, panicked |-> FALSE]
             ELSE IF Len(At(q, j)) < w[1] - 1
             THEN [anchor |-> j, panicked |-> FALSE]
             ELSE refine_anchor(q, idx, anchor, Tail(js), overflow)

(***************************************************************************)
(* Inputs: the plans handed to Query::new.                                 *)
(***************************************************************************)
\* Steps that differ in length, in where their Filter is and in whether
\* they hold a Group.
HoistSteps ==
    { <<>>,
      <<Map>>,
      <<Filter>>,
      <<Group(0)>>,
      <<Name("a"), Map>>,
      <<Filter, None>>,
      <<None, None, Filter>>,
      <<Group(0), Filter>> }

HoistPlans == SeqsUpTo(HoistSteps, MaxSteps)

\* Every column of at most MaxRows cells over all Actions, as a plan of
\* Steps of length 0 or 1.
ColumnSteps == {<<>>} \cup {<<a>> : a \in Actions}

ColumnPlans == SeqsUpTo(ColumnSteps, MaxRows)

\* Jagged plans of two Steps with several columns, dead or not.
WideActions == {Name("a"), Empty, Select}

WideSteps == SeqsUpTo(WideActions, MaxWidth)

WidePlans == [1..2 -> WideSteps]

\* The plans of main and of the tests.
MainPlan ==
    << <<Name("a"), Name("b"), Name("c")>>,
       <<Map, Map, Map>>,
       <<None, None, Filter>>,
       <<Join("d"), None, None, Name("d"), Name("e")>>,
       <<Group(0), None, None, None, None>>,
       <<Empty, Select, Empty, Select, Empty>> >>

RemoveTestPlan ==
    << <<Name("a")>>,
       <<Join("d"), Name("b"), Name("c")>>,
       <<Select, Select, Empty>> >>

FilterTestPlan == << <<Name("a")>>, <<Map>>, <<Filter>> >>

SourcePlans == {MainPlan, RemoveTestPlan, FilterTestPlan}

Plans == HoistPlans \cup ColumnPlans \cup WidePlans \cup SourcePlans

Init ==
    /\ input \in Plans
    /\ pc = "start"
    /\ steps = <<>>
    /\ colsv = <<>>
    /\ ci = 0
    /\ snap = <<>>
    /\ i = 0
    /\ filter_anchor = 0
    /\ ids = <<>>

(***************************************************************************)
(* optimize, line by line.                                                 *)
(***************************************************************************)
\* let mut query = self.clone(); query.cols() is evaluated once, before the
\* first iteration.
Begin ==
    /\ pc = "start"
    /\ steps' = input
    /\ colsv' = cols(input)
    /\ ci' = 0
    /\ pc' = "pass1"
    /\ UNCHANGED <<input, snap, i, filter_anchor, ids>>

\* One iteration of the first loop on a column that is_empty reports.
RemoveCol ==
    /\ pc = "pass1"
    /\ ci < Len(colsv)
    /\ is_empty(At(colsv, ci))
    /\ steps' = remove_col(steps, ci)
    /\ ci' = ci + 1
    /\ UNCHANGED <<input, pc, colsv, snap, i, filter_anchor, ids>>

\* One iteration of the first loop on any other column.
KeepCol ==
    /\ pc = "pass1"
    /\ ci < Len(colsv)
    /\ ~is_empty(At(colsv, ci))
    /\ ci' = ci + 1
    /\ UNCHANGED <<input, pc, steps, colsv, snap, i, filter_anchor, ids>>

\* let mut filter_anchor = 0; the second loop runs over query.steps.clone().
\* ids[k] is the row of snap that the Step now in row k came from.
EnterPass2 ==
    /\ pc = "pass1"
    /\ ci = Len(colsv)
    /\ filter_anchor' = 0
    /\ snap' = steps
    /\ ids' = [k \in 1..Len(steps) |-> k - 1]
    /\ i' = 0
    /\ pc' = "pass2"
    /\ UNCHANGED <<input, steps, colsv, ci>>

\* One iteration of the second loop on a Step without a Filter.
SkipStep ==
    /\ pc = "pass2"
    /\ i < Len(snap)
    /\ ~is_filter(At(snap, i))
    /\ filter_anchor' = group_anchor(At(snap, i), i, filter_anchor)
    /\ i' = i + 1
    /\ UNCHANGED <<input, pc, steps, colsv, ci, snap, ids>>

\* One iteration of the second loop on a Step with a Filter: the anchor
\* search, then raise_step on the rows of the query (each row carried with
\* its id).
HoistStep ==
    /\ pc = "pass2"
    /\ i < Len(snap)
    /\ is_filter(At(snap, i))
    /\ \E overflow \in {"panic", "wrap"} :
         LET a0 == group_anchor(At(snap, i), i, filter_anchor)
             found == refine_anchor(steps, i, a0,
                                    anchor_search_range(i, a0), overflow)
             rows == [k \in 1..Len(steps) |-> <<steps[k], ids[k]>>]
             raised == raise_step(rows, i, found.anchor)
         IN  IF found.panicked \/ raised.panicked
             THEN /\ pc' = "panic"
                  /\ UNCHANGED <<steps, ids, filter_anchor, i>>
             ELSE /\ pc' = "pass2"
                  /\ filter_anchor' = found.anchor
                  /\ steps' = [k \in 1..Len(steps) |-> raised.steps[k][1]]
                  /\ ids' = [k \in 1..Len(steps) |-> raised.steps[k][2]]
                  /\ i' = i + 1
    /\ UNCHANGED <<input, colsv, ci, snap>>

\* The loop is over; optimize returns query.
Return ==
    /\ pc = "pass2"
    /\ i = Len(snap)
    /\ pc' = "done"
    /\ UNCHANGED <<input, steps, colsv, ci, snap, i, filter_anchor, ids>>

Next ==
    \/ Begin
    \/ RemoveCol
    \/ KeepCol
    \/ EnterPass2
    \/ SkipStep
    \/ HoistStep
    \/ Return

Spec == Init /\ [][Next]_vars

(***************************************************************************)
(* Vocabulary of the properties.                                           *)
(***************************************************************************)
Max(S) == CHOOSE x \in S : \A y \in S : y <= x

Min(S) == CHOOSE x \in S : \A y \in S : x <= y

Rows(q) == 0..Len(q) - 1

LastLen(q) == IF q = <<>> THEN 0 ELSE Len(q[Len(q)])

LongestLen(q) == IF q = <<>> THEN 0 ELSE Max({Len(q[k]) : k \in 1..Len(q)})

Count(q, s) == Cardinality({k \in 1..Len(q) : q[k] = s})

\* The row of the query that now holds the Step that was row id of snap.
PosOf(id) == CHOOSE p \in Rows(ids) : At(ids, p) = id

AfterPass1 == pc \in {"pass2", "done"}

IsUse(a) == a = Filter \/ a.tag = "Join"

HasUse(column) == \E k \in Rows(column) : IsUse(At(column, k))

\* Pass 1 as the claim states it: the cells of the dead columns deleted.
DeadCols(q) == {c \in 0..LastLen(q) - 1 : is_empty(col(q, c))}

RECURSIVE Without(_, _, _)
Without(step, k, dead) ==
    IF k >= Len(step) THEN <<>>
    ELSE (IF k \in dead THEN <<>> ELSE <<At(step, k)>>)
         \o Without(step, k + 1, dead)

StripDead(q) == [k \in 1..Len(q) |-> Without(q[k], 0, DeadCols(q))]

\* C1: after pass 1 every Step is the input Step without the cells of the
\* dead columns of the input, whatever the number of dead columns.
Pass1StripsDeadCols == AfterPass1 => snap = StripDead(input)

ColsPadWithEmpty ==
    pc # "start" =>
      /\ Len(colsv) = LastLen(input)
      /\ \A c \in Rows(colsv) : At(colsv, c) = col(input, c)
      /\ \A c \in 0..LongestLen(input) :
           /\ Len(col(input, c)) = Len(input)
           /\ \A k \in Rows(input) :
                At(col(input, c), k) =
                  IF Len(At(input, k)) > c THEN At(At(input, k), c) ELSE Empty

PaddedColumn ==
    /\ pc = "pass1"
    /\ Len(colsv) >= 2
    /\ \E k \in Rows(input) :
         /\ Len(At(input, k)) = 1
         /\ At(At(colsv, 1), k) = Empty
         /\ At(At(colsv, 0), k) # Empty

\* C5 as stated: the last Step of optimize(plan) is no longer than the last
\* Step of the plan.
WidthNeverGrows == pc = "done" => LastLen(steps) <= LastLen(input)

\* C5 amended: the width after pass 1 is at most the width of the plan, the
\* longest Step of optimize(plan) is no longer than the longest Step of the
\* plan, and the width of optimize(plan) is at most the width of the plan
\* when the last Step after pass 1 holds no Filter.
WidthGrowsOnlyByHoist ==
    /\ AfterPass1 => LastLen(snap) <= width(input)
    /\ pc = "done" =>
         /\ LongestLen(steps) <= LongestLen(input)
         /\ (snap # <<>> /\ ~is_filter(At(snap, Len(snap) - 1)))
              => LastLen(steps) <= width(input)

NarrowedPlanDone ==
    /\ pc = "done"
    /\ LastLen(steps) < LastLen(input)
    /\ steps # snap

\* C3: while and after pass 2 runs, the most recent Group Step at or before
\* a Filter Step is still in its row, the Filter Step is not above it, and
\* a Group Step is before a Filter Step iff it was before it after pass 1.
FilterStaysBelowGroup ==
    AfterPass1 =>
      \A f \in Rows(snap) :
        is_filter(At(snap, f)) =>
          /\ LET G == {g \in 0..f : is_group(At(snap, g))} IN
             G # {} => At(ids, Max(G)) = Max(G) /\ PosOf(f) >= Max(G)
          /\ \A h \in Rows(snap) :
               is_group(At(snap, h)) => ((h < f) <=> (PosOf(h) < PosOf(f)))

FilterRaisedToGroup ==
    /\ pc = "done"
    /\ \E g, f \in Rows(snap) :
         /\ 0 < g /\ g + 1 < f
         /\ is_group(At(snap, g))
         /\ is_filter(At(snap, f))
         /\ PosOf(f) = g + 1

\* C4: the iteration of pass 2 on a Filter Step in row i, with anchor the
\* value it leaves in filter_anchor, is a block shift when i > anchor (row i
\* to anchor + 1, rows anchor + 1 .. i - 1 one row later, the rest in place)
\* and changes nothing when i <= anchor + 1.
HoistIsBlockShift ==
    [][(pc = "pass2" /\ i < Len(snap) /\ is_filter(At(snap, i))) =>
         LET a == filter_anchor' IN
         /\ Len(steps') = Len(steps)
         /\ i > a =>
              /\ At(steps', a + 1) = At(steps, i)
              /\ \A k \in a + 1..i - 1 : At(steps', k + 1) = At(steps, k)
              /\ \A k \in Rows(steps) :
                   (k <= a \/ k > i) => At(steps', k) = At(steps, k)
         /\ i <= a + 1 => steps' = steps]_vars

BlockShifted ==
    /\ pc = "pass2"
    /\ i >= 3
    /\ is_filter(At(snap, i - 1))
    /\ PosOf(i - 1) = filter_anchor + 1
    /\ filter_anchor + 3 <= i - 1
    /\ \A k \in filter_anchor + 1..i - 2 : PosOf(k) = k + 1

\* C6: the Steps after pass 2 are the Steps after pass 1 in another order,
\* and the Steps without a Filter keep their order.
Pass2Permutes ==
    pc = "done" =>
      /\ Len(steps) = Len(snap)
      /\ \A s \in Range(snap) \cup Range(steps) : Count(steps, s) = Count(snap, s)
      /\ Range(ids) = Rows(snap)
      /\ \A p \in Rows(steps) : At(steps, p) = At(snap, At(ids, p))
      /\ \A p, r \in Rows(steps) :
           (p < r /\ ~is_filter(At(steps, p)) /\ ~is_filter(At(steps, r)))
             => At(ids, p) < At(ids, r)

ReorderedPlanDone ==
    /\ pc = "done"
    /\ steps # snap
    /\ \E p, r \in Rows(steps) :
         /\ p < r
         /\ At(steps, p) # At(steps, r)
         /\ ~is_filter(At(steps, p))
         /\ ~is_filter(At(steps, r))
         /\ At(ids, p) # p

\* The anchor the search of pass 2 is said to find: the row nearest to idx,
\* from idx - 1 down to a0, shorter than the rightmost Filter index less one.
ClaimedAnchor(q, idx, a0) ==
    LET w == widest_filter_index(At(q, idx))
        J == {j \in a0..idx - 1 : Len(At(q, j)) < w[1] - 1}
    IN  IF J = {} THEN a0 ELSE Max(J)

\* C8: the iteration of pass 2 on a Filter Step in row i moves the anchor to
\* the first row j, from i - 1 down to the anchor, that is shorter than the
\* index of the rightmost Filter of row i less one, and the Filter Step ends
\* in row j + 1.
AnchorRefined ==
    [][(pc = "pass2" /\ i < Len(snap) /\ is_filter(At(snap, i))) =>
         LET a == ClaimedAnchor(steps, i,
                                group_anchor(At(snap, i), i, filter_anchor))
         IN  /\ filter_anchor' = a
             /\ i > a => At(steps', a + 1) = At(steps, i)]_vars

\* C9: optimize never fails and always returns, and removing a column leaves
\* the Steps that are too short for it as they are.
OptimizeIsTotal ==
    /\ [](pc # "panic" /\ (pc = "done" \/ ENABLED Next))
    /\ [][(pc = "pass1" /\ steps' # steps) =>
            \A k \in Rows(steps) :
              ci >= Len(At(steps, k)) => At(steps', k) = At(steps, k)]_vars

HardPlanDone ==
    /\ pc = "done"
    /\ \E k \in Rows(input) : At(input, k) = <<>>
    /\ \E k \in Rows(snap) : widest_filter_index(At(snap, k)) = <<0>>
    /\ \E k \in Rows(input) : Len(At(input, k)) > LastLen(input)
    /\ steps # snap

\* Segments of the plan after pass 1, and the row of snap expected in row p
\* of the result.
SegStart(p) ==
    LET G == {g \in 0..p : is_group(At(snap, g))} IN
    IF G = {} THEN 0 ELSE Max(G)

SegEnd(a) ==
    LET G == {g \in a + 1..Len(snap) - 1 : is_group(At(snap, g))} IN
    IF G = {} THEN Len(snap) - 1 ELSE Min(G) - 1

ExpectedId(p) ==
    LET a == SegStart(p)
        F == {q \in a + 1..SegEnd(a) : is_filter(At(snap, q))}
        O == {q \in a + 1..SegEnd(a) : ~is_filter(At(snap, q))}
        m == p - a
    IN  IF m = 0 THEN p
        ELSE IF m <= Cardinality(F)
        THEN CHOOSE q \in F : Cardinality({r \in F : r >= q}) = m
        ELSE CHOOSE q \in O : Cardinality({r \in O : r <= q}) = m - Cardinality(F)

\* C10: in the result every segment (row 0 or a Group Step, up to the next
\* Group Step) holds its start, then its Filter Steps in the reverse of their
\* order after pass 1, then its other Steps in their order after pass 1.
FiltersReversedInSegment ==
    pc = "done" =>
      \A p \in Rows(snap) :
        /\ At(ids, p) = ExpectedId(p)
        /\ At(steps, p) = At(snap, ExpectedId(p))

TwoFiltersReversed ==
    /\ pc = "done"
    /\ \E g \in Rows(snap) :
         /\ is_group(At(snap, g))
         /\ g + 3 < Len(snap)
         /\ ~is_filter(At(snap, g + 1))
         /\ is_filter(At(snap, g + 2)) /\ ~is_group(At(snap, g + 2))
         /\ is_filter(At(snap, g + 3)) /\ ~is_group(At(snap, g + 3))
         /\ At(snap, g + 2) # At(snap, g + 3)
         /\ At(ids, g + 1) = g + 3
         /\ At(ids, g + 2) = g + 2
         /\ At(ids, g + 3) = g + 1
====
